---- MODULE Spec2Model ----
(***************************************************************************)
(* A model of hilang (src/src/main.rs): the tree adapter `convert`, the    *)
(* tree-walking `Interpreter` and the exit-status mapping of `main`.       *)
(*                                                                         *)
(* Strings are sequences of one-character strings, so that starts_with,    *)
(* trim_matches, trim_end, parse::<i64> and to_string are computed.        *)
(* i64 is scaled down to IntBits bits (two's complement), because the      *)
(* model checker's own integers are 32 bits wide.                          *)
(* Option<DataInterpreter> has a third outcome here, Panic, for panic!().  *)
(***************************************************************************)
EXTENDS Integers, Sequences, FiniteSets, TLC

VARIABLES input, ast, pc, ctl, stack, storage, stdout, stderr, exit, log

vars == <<input, ast, pc, ctl, stack, storage, stdout, stderr, exit, log>>

(***************************************************************************)
(* Bounds of the model.                                                    *)
(***************************************************************************)
\* width of the scaled i64
IntBits == 12

IntMin == -(2 ^ (IntBits - 1))
IntMax == (2 ^ (IntBits - 1)) - 1

(***************************************************************************)
(* enum DataInterpreter { Int(i64), Str(String), Void() }                  *)
(***************************************************************************)
Int_(i) == <<"Int", i>>
Str_(s) == <<"Str", s>>
Void == <<"Void">>

IsInt(v) == v[1] = "Int"
IsStr(v) == v[1] = "Str"

(***************************************************************************)
(* Option<DataInterpreter>, and the unwinding panic.                       *)
(***************************************************************************)
Some(v) == <<"Some", v>>
None == <<"None">>
Panic == <<"Panic">>

IsSome(o) == o[1] = "Some"

(***************************************************************************)
(* enum AST                                                                *)
(***************************************************************************)
Scope(a) == <<"Scope", a>>
Arrow(a, b) == <<"Arrow", a, b>>
Match(a, b) == <<"Match", a, b>>
Method(args, obj) == <<"Method", args, obj>>
Primitive(label) == <<"Primitive", label>>
Literal(contents) == <<"Literal", contents>>
Variable(label) == <<"Variable", label>>

(***************************************************************************)
(* suzuran::Node, the generic operator tree `convert` consumes.            *)
(***************************************************************************)
Placeholder == <<"NPlaceholder">>
Parentheses(n) == <<"NParentheses", n>>
NodePrimitive(label) == <<"NPrimitive", label>>
Operator(label, n1, n2) == <<"NOperator", label, n1, n2>>

Ok(a) == <<"Ok", a>>
Err == <<"Err">>

(***************************************************************************)
(* String helpers.                                                         *)
(***************************************************************************)
Quote == "\""

\* str::starts_with(char)
StartsWith(s, c) == Len(s) > 0 /\ s[1] = c

RECURSIVE TrimStartMatches(_, _)
TrimStartMatches(s, c) ==
    IF Len(s) > 0 /\ s[1] = c THEN TrimStartMatches(Tail(s), c) ELSE s

RECURSIVE TrimEndMatches(_, _)
TrimEndMatches(s, c) ==
    IF Len(s) > 0 /\ s[Len(s)] = c
    THEN TrimEndMatches(SubSeq(s, 1, Len(s) - 1), c)
    ELSE s

\* str::trim_matches(char): every leading and every trailing occurrence
TrimMatches(s, c) == TrimEndMatches(TrimStartMatches(s, c), c)

\* char::is_whitespace (Unicode White_Space): U+0009 ..= U+000D, the space,
\* U+0085 (next line), U+00A0 (no-break space) and U+1680 (ogham space
\* mark).  The vertical tab and the three beyond ASCII have no escape and
\* are written as themselves.  The remaining White_Space characters
\* (U+2000 ..= U+200A, U+2028, U+2029, U+202F, U+205F, U+3000) are no
\* lexical characters of a string here: no input of the model holds one.
WhiteSpace ==
    {" ", "\t", "\n", "", "\f", "\r", "", " ", " "}

\* str::trim_end()
RECURSIVE TrimEnd(_)
TrimEnd(s) ==
    IF Len(s) > 0 /\ s[Len(s)] \in WhiteSpace
    THEN TrimEnd(SubSeq(s, 1, Len(s) - 1))
    ELSE s

DigitChars == <<"0", "1", "2", "3", "4", "5", "6", "7", "8", "9">>

IsDigit(c) == \E i \in 1..10 : DigitChars[i] = c
DigitVal(c) == (CHOOSE i \in 1..10 : DigitChars[i] = c) - 1

\* the digit loop of i64::from_str: acc*10 + d (or - d), checked; "Err" on
\* a non-digit or on leaving the range
RECURSIVE ParseDigits(_, _, _)
ParseDigits(s, acc, neg) ==
    IF Len(s) = 0 THEN Ok(acc)
    ELSE IF ~IsDigit(s[1]) THEN Err
    ELSE LET d == DigitVal(s[1])
             nxt == IF neg THEN acc * 10 - d ELSE acc * 10 + d
         IN IF nxt < IntMin \/ nxt > IntMax THEN Err
            ELSE ParseDigits(Tail(s), nxt, neg)

\* s.parse::<i64>()
ParseI64(s) ==
    IF Len(s) = 0 THEN Err
    ELSE IF s[1] \in {"+", "-"}
         THEN IF Len(s) = 1 THEN Err ELSE ParseDigits(Tail(s), 0, s[1] = "-")
         ELSE ParseDigits(s, 0, FALSE)

RECURSIVE NatToString(_)
NatToString(n) ==
    IF n < 10 THEN <<DigitChars[n + 1]>>
    ELSE NatToString(n \div 10) \o <<DigitChars[(n % 10) + 1]>>

\* i64::to_string()
IntToString(i) == IF i < 0 THEN <<"-">> \o NatToString(-i) ELSE NatToString(i)

(***************************************************************************)
(* fn convert(node: suzuran::Node) -> Result<AST, ()>                      *)
(***************************************************************************)
Backslash == <<"\\">>

\* the leaf arm of convert
ConvertLeaf(label) ==
    IF StartsWith(label, Quote)
    THEN Ok(Literal(TrimMatches(label, Quote)))
    ELSE Ok(Primitive(label))

\* a bug: the left operand of the marker is not looked at
ConvertVariable_Mut(n1, n2) ==
    IF n2[1] = "NPrimitive" THEN Ok(Variable(n2[2])) ELSE Err

\* the arm for the operator labelled "\\"
ConvertVariable(n1, n2) ==
    IF n1 = Placeholder /\ n2[1] = "NPrimitive" THEN Ok(Variable(n2[2])) ELSE Err

\* a bug: "<-" keeps the order of its operands
ConvertOperator_Mut(label, a1, a2) ==
    CASE label = <<";">> -> Ok(Arrow(a1, a2))
      [] label = <<"-", ">">> -> Ok(Arrow(a1, a2))
      [] label = <<"<", "-">> -> Ok(Arrow(a1, a2))
      [] label = <<"|">> -> Ok(Match(a1, a2))
      [] label = <<".">> -> Ok(Method(<<a1>>, a2))
      [] OTHER -> Ok(Method(<<a1, a2>>, Primitive(label)))

\* the match on the label of any other operator, its children converted
ConvertOperator(label, a1, a2) ==
    CASE label = <<";">> -> Ok(Arrow(a1, a2))
      [] label = <<"-", ">">> -> Ok(Arrow(a1, a2))
      [] label = <<"<", "-">> -> Ok(Arrow(a2, a1))
      [] label = <<"|">> -> Ok(Match(a1, a2))
      [] label = <<".">> -> Ok(Method(<<a1>>, a2))
      [] OTHER -> Ok(Method(<<a1, a2>>, Primitive(label)))

RECURSIVE convert(_)
convert(node) ==
    CASE node[1] = "NPlaceholder" -> Err
      [] node[1] = "NParentheses" ->
            LET r == convert(node[2])
            IN IF r = Err THEN Err ELSE Ok(Scope(r[2]))
      [] node[1] = "NPrimitive" -> ConvertLeaf(node[2])
      [] node[1] = "NOperator" /\ node[2] = Backslash ->
            ConvertVariable(node[3], node[4])
      [] node[1] = "NOperator" /\ node[2] # Backslash ->
            LET r1 == convert(node[3])
            IN IF r1 = Err THEN Err
               ELSE LET r2 == convert(node[4])
                    IN IF r2 = Err THEN Err
                       ELSE ConvertOperator(node[2], r1[2], r2[2])

(***************************************************************************)
(* struct Interpreter { storage: HashMap<String, DataInterpreter> }        *)
(***************************************************************************)
EmptyStorage == [k \in {} |-> Void]

\* a bug: entry(key).or_insert(v), which keeps an earlier value
StorageInsert_Mut(st, key, v) ==
    [k \in (DOMAIN st) \cup {key} |-> IF k \in DOMAIN st THEN st[k] ELSE v]

\* a bug: the insert goes to a fresh map
StorageInsert_MutFresh(st, key, v) == [k \in {key} |-> v]

\* HashMap::insert
StorageInsert(st, key, v) ==
    [k \in (DOMAIN st) \cup {key} |-> IF k = key THEN v ELSE st[k]]

\* HashMap::get(..).cloned()
StorageGet(st, key) == IF key \in DOMAIN st THEN Some(st[key]) ELSE None

(***************************************************************************)
(* The built-in labels of interpret_primitive.                             *)
(***************************************************************************)
L_int == <<"i", "n", "t">>
L_str == <<"s", "t", "r">>
L_output == <<"o", "u", "t", "p", "u", "t">>
L_input == <<"i", "n", "p", "u", "t">>
L_store == <<"s", "t", "o", "r", "e">>
L_load == <<"l", "o", "a", "d">>
L_loop == <<"l", "o", "o", "p">>
L_pass == <<"p", "a", "s", "s">>
L_add == <<"+">>
L_sub == <<"-">>
L_mul == <<"*">>
L_rem == <<"%">>
L_eq == <<"=", "=">>
L_ne == <<"!", "=">>
L_le == <<"=", "<">>
L_lt == <<"<">>

ArithLabels == {L_add, L_sub, L_mul, L_rem}
CompareLabels == {L_eq, L_ne, L_le, L_lt}
BinaryLabels == ArithLabels \cup CompareLabels
LeafLabels == {L_int, L_str, L_output, L_input, L_pass}
KnownLabels == LeafLabels \cup BinaryLabels \cup {L_store, L_load, L_loop}

(***************************************************************************)
(* i64 arithmetic.  `checks` is the build's overflow-checks setting: with  *)
(* it an overflowing + - * panics, without it the result wraps.  A zero    *)
(* divisor and MIN % -1 panic in every build.                              *)
(***************************************************************************)
Abs(i) == IF i < 0 THEN -i ELSE i

\* two's complement wrap-around into IntMin..IntMax
Wrap(x) == ((x - IntMin) % (2 ^ IntBits)) + IntMin

InRange(x) == IntMin <= x /\ x <= IntMax

\* a bug: the remainder of floored division, never negative
RemTrunc_Mut(a, b) == a % Abs(b)

\* the remainder of truncated division: the sign of the dividend
RemTrunc(a, b) == IF a < 0 THEN -(Abs(a) % Abs(b)) ELSE Abs(a) % Abs(b)

Checked(x, checks) ==
    IF InRange(x) THEN Some(Int_(x))
    ELSE IF checks THEN Panic ELSE Some(Int_(Wrap(x)))

\* a bug: the "+" arm subtracts
Arith_Mut(label, i1, i2, checks) ==
    CASE label = L_add -> Checked(i1 - i2, checks)
      [] label = L_sub -> Checked(i1 - i2, checks)
      [] label = L_mul -> Checked(i1 * i2, checks)
      [] label = L_rem ->
            IF i2 = 0 \/ (i1 = IntMin /\ i2 = -1) THEN Panic
            ELSE Some(Int_(RemTrunc(i1, i2)))

Arith(label, i1, i2, checks) ==
    CASE label = L_add -> Checked(i1 + i2, checks)
      [] label = L_sub -> Checked(i1 - i2, checks)
      [] label = L_mul -> Checked(i1 * i2, checks)
      [] label = L_rem ->
            IF i2 = 0 \/ (i1 = IntMin /\ i2 = -1) THEN Panic
            ELSE Some(Int_(RemTrunc(i1, i2)))

\* bool::then_some(DataInterpreter::Void())
ThenSomeVoid(b) == IF b THEN Some(Void) ELSE None

\* a bug: "=<" compares strictly
Compare_Mut(label, i1, i2) ==
    CASE label = L_eq -> ThenSomeVoid(i1 = i2)
      [] label = L_ne -> ThenSomeVoid(i1 # i2)
      [] label = L_le -> ThenSomeVoid(i1 < i2)
      [] label = L_lt -> ThenSomeVoid(i1 < i2)

Compare(label, i1, i2) ==
    CASE label = L_eq -> ThenSomeVoid(i1 = i2)
      [] label = L_ne -> ThenSomeVoid(i1 # i2)
      [] label = L_le -> ThenSomeVoid(i1 <= i2)
      [] label = L_lt -> ThenSomeVoid(i1 < i2)

\* a bug: operands that are not both Int give None
BinaryResult_Mut(label, o1, o2, checks) ==
    IF IsInt(o1) /\ IsInt(o2)
    THEN IF label \in ArithLabels
         THEN Arith(label, o1[2], o2[2], checks)
         ELSE Compare(label, o1[2], o2[2])
    ELSE None

\* match (o1, o2) of the binary built-ins
BinaryResult(label, o1, o2, checks) ==
    IF IsInt(o1) /\ IsInt(o2)
    THEN IF label \in ArithLabels
         THEN Arith(label, o1[2], o2[2], checks)
         ELSE Compare(label, o1[2], o2[2])
    ELSE Panic

(***************************************************************************)
(* The built-ins that evaluate no operand.                                 *)
(***************************************************************************)
PrimitiveInt(stream) ==
    CASE IsInt(stream) -> Some(stream)
      [] IsStr(stream) ->
            LET r == ParseI64(stream[2])
            IN IF r = Err THEN None ELSE Some(Int_(r[2]))
      [] OTHER -> Panic

PrimitiveStr(stream) ==
    CASE IsInt(stream) -> Some(Str_(IntToString(stream[2])))
      [] IsStr(stream) -> Some(stream)
      [] OTHER -> Panic

\* what println! writes for the stream
OutputLine(stream) == IF IsInt(stream) THEN IntToString(stream[2]) ELSE stream[2]

PrimitivePass(stream) == Some(stream)

\* a bug: a misplaced literal reports soft failure instead of panicking
InterpretLiteral_Mut(args, contents, stream) ==
    IF stream = Void /\ Len(args) = 0 THEN Some(Str_(contents)) ELSE None

\* fn interpret_literal
\* a bug: the literal does not look at args
InterpretLiteral_MutArgs(args, contents, stream) ==
    IF stream = Void THEN Some(Str_(contents)) ELSE Panic

InterpretLiteral(args, contents, stream) ==
    IF stream = Void /\ Len(args) = 0 THEN Some(Str_(contents)) ELSE Panic

(***************************************************************************)
(* The evaluator as a machine: `ctl` is either a pending call              *)
(* interpret(args, node, stream) or a value being returned, and `stack`    *)
(* holds the activations of interpret / interpret_primitive that wait for  *)
(* a callee, innermost last.                                               *)
(***************************************************************************)
CallCtl(args, node, stream) ==
    [mode |-> "call", args |-> args, node |-> node, stream |-> stream, out |-> None]

RetCtl(out) ==
    [mode |-> "ret", args |-> <<>>, node |-> Primitive(<<>>), stream |-> Void,
     out |-> out]

IdleCtl ==
    [mode |-> "idle", args |-> <<>>, node |-> Primitive(<<>>), stream |-> Void,
     out |-> None]

\* an activation: its parameters, how far it got (pos), and o1 once bound
Frame(args, node, stream, pos, o1) ==
    [args |-> args, node |-> node, stream |-> stream, pos |-> pos, o1 |-> o1]

Push(f) == Append(stack, f)
Pop == SubSeq(stack, 1, Len(stack) - 1)
Top == stack[Len(stack)]
ReplaceTop(f) == [stack EXCEPT ![Len(stack)] = f]

Calling == pc = "run" /\ ctl.mode = "call"
Returning == pc = "run" /\ ctl.mode = "ret" /\ ctl.out # Panic /\ Len(stack) > 0

TopIs(kind) == Top.node[1] = kind
TopIsPrimitive(labels) == Top.node[1] = "Primitive" /\ Top.node[2] \in labels

(***************************************************************************)
(* Inputs of a run.  `harness` is "main" (fn main: empty storage, Void     *)
(* stream, exit status) or "test" (the unit tests: Interpreter::new with   *)
(* a given storage, interpret with a given stream).                        *)
(***************************************************************************)
Run(node, stream, st, harness, checks) ==
    [node |-> node, stream |-> stream, storage |-> st, harness |-> harness,
     checks |-> checks, trace |-> TRUE]

\* a run whose writes are not recorded in the history variable `log`
RunUntraced(node, stream, st, harness, checks) ==
    [Run(node, stream, st, harness, checks) EXCEPT !.trace = FALSE]

\* `ast` before parse_ast has bound it
NoAst == Primitive(<<>>)

(***************************************************************************)
(* fn main, from parse_ast on.                                             *)
(***************************************************************************)
DiagParse == "Cannot parse file"
DiagExecute == "Cannot execute successfully"
DiagPanic == "thread 'main' panicked"

\* the status of a process whose main thread panicked
PanicExitCode == 101

\* a bug: any success counts, whatever the value
MainExitCode_Mut(out) == IF IsSome(out) THEN 0 ELSE 1

\* let Some(DataInterpreter::Void()) = ... else { eprintln!; exit(1) }
MainExitCode(out) == IF out = Some(Void) THEN 0 ELSE 1

MainDiagnostics(out) == IF out = Some(Void) THEN <<>> ELSE <<DiagExecute>>

\* parse_ast: the tree adapter accepts or rejects the generic tree
ParseAst ==
    /\ pc = "parse"
    /\ LET r == convert(input.node)
       IN IF r = Err
          THEN /\ pc' = "rejected"
               /\ ast' = ast
               /\ ctl' = IdleCtl
               /\ stderr' = IF input.harness = "main" THEN <<DiagParse>> ELSE stderr
               /\ exit' = IF input.harness = "main" THEN <<1>> ELSE exit
          ELSE /\ pc' = "run"
               /\ ast' = r[2]
               /\ ctl' = CallCtl(<<>>, ast', input.stream)
               /\ UNCHANGED <<stderr, exit>>
    /\ UNCHANGED <<input, stack, storage, stdout, log>>

\* interpret returns to its first caller
Finish ==
    /\ pc = "run"
    /\ ctl.mode = "ret"
    /\ ctl.out # Panic
    /\ Len(stack) = 0
    /\ pc' = "returned"
    /\ exit' = IF input.harness = "main" THEN <<MainExitCode(ctl.out)>> ELSE exit
    /\ stderr' = IF input.harness = "main" THEN MainDiagnostics(ctl.out) ELSE stderr
    /\ UNCHANGED <<input, ast, ctl, stack, storage, stdout, log>>

\* panic!(), todo!(), an index out of bounds, an arithmetic overflow: the
\* thread unwinds through every activation; nothing catches it
Unwind ==
    /\ pc = "run"
    /\ ctl.mode = "ret"
    /\ ctl.out = Panic
    /\ pc' = "panicked"
    /\ stack' = <<>>
    /\ exit' = IF input.harness = "main" THEN <<PanicExitCode>> ELSE exit
    /\ stderr' = IF input.harness = "main" THEN <<DiagPanic>> ELSE stderr
    /\ UNCHANGED <<input, ast, ctl, storage, stdout, log>>

(***************************************************************************)
(* fn interpret: the composite nodes.                                      *)
(***************************************************************************)
\* AST::Arrow: interpret(args, obj1, stream)
CallArrow ==
    /\ Calling
    /\ ctl.node[1] = "Arrow"
    /\ stack' = Push(Frame(ctl.args, ctl.node, ctl.stream, 1, Void))
    /\ ctl' = CallCtl(ctl.args, ctl.node[2], ctl.stream)
    /\ UNCHANGED <<input, ast, pc, storage, stdout, stderr, exit, log>>

\* a bug: obj2 gets the stream of the Arrow, not the value of obj1
ArrowSecondStream_Mut(frame, v) == frame.stream

\* the stream and_then hands to obj2
ArrowSecondStream(frame, v) == v

\* .and_then(|stream| interpret(args, obj2, stream)), and its return
RetArrow ==
    /\ Returning
    /\ TopIs("Arrow")
    /\ IF Top.pos = 1 /\ IsSome(ctl.out)
       THEN /\ stack' = ReplaceTop([Top EXCEPT !.pos = 2])
            /\ ctl' = CallCtl(Top.args, Top.node[3], ArrowSecondStream(Top, ctl.out[2]))
       ELSE /\ stack' = Pop
            /\ ctl' = ctl
    /\ UNCHANGED <<input, ast, pc, storage, stdout, stderr, exit, log>>

\* AST::Match: interpret(args, obj1, stream.clone())
CallMatch ==
    /\ Calling
    /\ ctl.node[1] = "Match"
    /\ stack' = Push(Frame(ctl.args, ctl.node, ctl.stream, 1, Void))
    /\ ctl' = CallCtl(ctl.args, ctl.node[2], ctl.stream)
    /\ UNCHANGED <<input, ast, pc, storage, stdout, stderr, exit, log>>

\* a bug: the second branch is started on an empty stream
MatchSecondStream_Mut(frame) == Void

\* the stream or_else hands to obj2: the one interpret was called with
MatchSecondStream(frame) == frame.stream

\* a bug: the closure of or_else never runs
MatchFallsBack_Mut(out) == FALSE

\* whether or_else runs its closure
MatchFallsBack(out) == out = None

\* .or_else(|| interpret(args, obj2, stream)), and its return
RetMatch ==
    /\ Returning
    /\ TopIs("Match")
    /\ IF Top.pos = 1 /\ MatchFallsBack(ctl.out)
       THEN /\ stack' = ReplaceTop([Top EXCEPT !.pos = 2])
            /\ ctl' = CallCtl(Top.args, Top.node[3], MatchSecondStream(Top))
       ELSE /\ stack' = Pop
            /\ ctl' = ctl
    /\ UNCHANGED <<input, ast, pc, storage, stdout, stderr, exit, log>>

\* AST::Method(args, obj): the node's own operands become the active list
CallMethod ==
    /\ Calling
    /\ ctl.node[1] = "Method"
    /\ stack' = Push(Frame(ctl.args, ctl.node, ctl.stream, 1, Void))
    /\ ctl' = CallCtl(ctl.node[2], ctl.node[3], ctl.stream)
    /\ UNCHANGED <<input, ast, pc, storage, stdout, stderr, exit, log>>

\* AST::Scope(obj)
CallScope ==
    /\ Calling
    /\ ctl.node[1] = "Scope"
    /\ stack' = Push(Frame(ctl.args, ctl.node, ctl.stream, 1, Void))
    /\ ctl' = CallCtl(ctl.args, ctl.node[2], ctl.stream)
    /\ UNCHANGED <<input, ast, pc, storage, stdout, stderr, exit, log>>

\* Method and Scope return what their callee returned
RetTransparent ==
    /\ Returning
    /\ TopIs("Method") \/ TopIs("Scope")
    /\ stack' = Pop
    /\ ctl' = ctl
    /\ UNCHANGED <<input, ast, pc, storage, stdout, stderr, exit, log>>

\* AST::Variable(label) => todo!()
CallVariable ==
    /\ Calling
    /\ ctl.node[1] = "Variable"
    /\ ctl' = RetCtl(Panic)
    /\ UNCHANGED <<input, ast, pc, stack, storage, stdout, stderr, exit, log>>

\* AST::Literal(contents) => interpret_literal
CallLiteral ==
    /\ Calling
    /\ ctl.node[1] = "Literal"
    /\ ctl' = RetCtl(InterpretLiteral(ctl.args, ctl.node[2], ctl.stream))
    /\ UNCHANGED <<input, ast, pc, stack, storage, stdout, stderr, exit, log>>

(***************************************************************************)
(* fn interpret_primitive.                                                 *)
(***************************************************************************)
\* what read_line can deliver: a line with its terminator, an unterminated
\* last line, nothing at end of input, or an error (unwrap panics)
StdinReads ==
    { Ok(<<"7", "\n">>), Ok(<<"x", " ", "\r", "\n">>), Ok(<<"-", "1">>),
      Ok(<<"x", "\f", "\n">>), Ok(<<"\f", "", "\n">>),
      Ok(<<"x", " ", "", " ", "\n">>), Ok(<<>>), Err }

PrimitiveInput(stream, read) ==
    IF stream # Void \/ read = Err THEN Panic ELSE Some(Str_(TrimEnd(read[2])))

\* "int", "str", "pass", and `_ => panic!()` for a label that names nothing
CallPure ==
    /\ Calling
    /\ ctl.node[1] = "Primitive"
    /\ ctl.node[2] \notin {L_output, L_input, L_store, L_load, L_loop} \cup BinaryLabels
    /\ ctl' = RetCtl(CASE ctl.node[2] = L_int -> PrimitiveInt(ctl.stream)
                       [] ctl.node[2] = L_str -> PrimitiveStr(ctl.stream)
                       [] ctl.node[2] = L_pass -> PrimitivePass(ctl.stream)
                       [] OTHER -> Panic)
    /\ UNCHANGED <<input, ast, pc, stack, storage, stdout, stderr, exit, log>>

\* "output"
CallOutput ==
    /\ Calling
    /\ ctl.node = Primitive(L_output)
    /\ IF ctl.stream = Void
       THEN ctl' = RetCtl(Panic) /\ stdout' = stdout
       ELSE ctl' = RetCtl(Some(Void)) /\ stdout' = Append(stdout, OutputLine(ctl.stream))
    /\ UNCHANGED <<input, ast, pc, stack, storage, stderr, exit, log>>

\* "input"
CallInput ==
    /\ Calling
    /\ ctl.node = Primitive(L_input)
    /\ \E read \in StdinReads : ctl' = RetCtl(PrimitiveInput(ctl.stream, read))
    /\ UNCHANGED <<input, ast, pc, stack, storage, stdout, stderr, exit, log>>

\* "store": interpret(&[], &args[0], Void) for the key
CallStore ==
    /\ Calling
    /\ ctl.node = Primitive(L_store)
    /\ IF Len(ctl.args) = 0
       THEN ctl' = RetCtl(Panic) /\ stack' = stack
       ELSE /\ stack' = Push(Frame(ctl.args, ctl.node, ctl.stream, 1, Void))
            /\ ctl' = CallCtl(<<>>, ctl.args[1], Void)
    /\ UNCHANGED <<input, ast, pc, storage, stdout, stderr, exit, log>>

\* Some(Str(label)) => storage.insert(label, stream); _ => panic!()
RetStore ==
    /\ Returning
    /\ TopIsPrimitive({L_store})
    /\ stack' = Pop
    /\ IF IsSome(ctl.out) /\ IsStr(ctl.out[2])
       THEN /\ storage' = StorageInsert(storage, ctl.out[2][2], Top.stream)
            /\ log' = IF input.trace
                      THEN Append(log, <<ctl.out[2][2], Top.stream>>)
                      ELSE log
            /\ ctl' = RetCtl(Some(Void))
       ELSE /\ ctl' = RetCtl(Panic)
            /\ UNCHANGED <<storage, log>>
    /\ UNCHANGED <<input, ast, pc, stdout, stderr, exit>>

\* "load": the stream must be Void, then the key is evaluated
CallLoad ==
    /\ Calling
    /\ ctl.node = Primitive(L_load)
    /\ IF ctl.stream # Void \/ Len(ctl.args) = 0
       THEN ctl' = RetCtl(Panic) /\ stack' = stack
       ELSE /\ stack' = Push(Frame(ctl.args, ctl.node, ctl.stream, 1, Void))
            /\ ctl' = CallCtl(<<>>, ctl.args[1], Void)
    /\ UNCHANGED <<input, ast, pc, storage, stdout, stderr, exit, log>>

\* a bug: a key that is no text gives None
LoadResult_Mut(st, out) ==
    IF IsSome(out) /\ IsStr(out[2]) THEN StorageGet(st, out[2][2]) ELSE None

\* Some(Str(label)) => storage.get(&label).cloned(); _ => panic!()
LoadResult(st, out) ==
    IF IsSome(out) /\ IsStr(out[2]) THEN StorageGet(st, out[2][2]) ELSE Panic

RetLoad ==
    /\ Returning
    /\ TopIsPrimitive({L_load})
    /\ stack' = Pop
    /\ ctl' = RetCtl(LoadResult(storage, ctl.out))
    /\ UNCHANGED <<input, ast, pc, storage, stdout, stderr, exit, log>>

\* a bug: the operands get the stream of the built-in
OperandStream_Mut(stream) == stream

\* the stream the operands of a binary built-in are evaluated against
OperandStream(stream) == Void

\* a bug: the right operand is evaluated first (and again as the second)
FirstOperand_Mut(args) == IF Len(args) >= 2 THEN args[2] ELSE args[1]

\* the operand bound to o1, and the one bound to o2
FirstOperand(args) == args[1]
SecondOperand(args) == args[2]

\* "+" ... "<": let o1 = interpret(&[], &args[0], Void)?
CallBinary ==
    /\ Calling
    /\ ctl.node[1] = "Primitive"
    /\ ctl.node[2] \in BinaryLabels
    /\ IF Len(ctl.args) = 0
       THEN ctl' = RetCtl(Panic) /\ stack' = stack
       ELSE /\ stack' = Push(Frame(ctl.args, ctl.node, ctl.stream, 1, Void))
            /\ ctl' = CallCtl(<<>>, FirstOperand(ctl.args), OperandStream(ctl.stream))
    /\ UNCHANGED <<input, ast, pc, storage, stdout, stderr, exit, log>>

\* o1 is bound: let o2 = interpret(&[], &args[1], Void)?  A None leaves by `?`
RetBinaryFirst ==
    /\ Returning
    /\ TopIsPrimitive(BinaryLabels)
    /\ Top.pos = 1
    /\ IF ctl.out = None
       THEN stack' = Pop /\ ctl' = ctl
       ELSE IF Len(Top.args) < 2
       THEN stack' = Pop /\ ctl' = RetCtl(Panic)
       ELSE /\ stack' = ReplaceTop([Top EXCEPT !.pos = 2, !.o1 = ctl.out[2]])
            /\ ctl' = CallCtl(<<>>, SecondOperand(Top.args), OperandStream(Top.stream))
    /\ UNCHANGED <<input, ast, pc, storage, stdout, stderr, exit, log>>

\* o2 is bound: match (o1, o2)
RetBinarySecond ==
    /\ Returning
    /\ TopIsPrimitive(BinaryLabels)
    /\ Top.pos = 2
    /\ stack' = Pop
    /\ ctl' = IF ctl.out = None THEN ctl
              ELSE RetCtl(BinaryResult(Top.node[2], Top.o1, ctl.out[2], input.checks))
    /\ UNCHANGED <<input, ast, pc, storage, stdout, stderr, exit, log>>

\* "loop": stream_loop = Some(stream), the first pass of the while let
CallLoop ==
    /\ Calling
    /\ ctl.node = Primitive(L_loop)
    /\ IF Len(ctl.args) = 0
       THEN ctl' = RetCtl(Panic) /\ stack' = stack
       ELSE /\ stack' = Push(Frame(ctl.args, ctl.node, ctl.stream, 1, Void))
            /\ ctl' = CallCtl(<<>>, ctl.args[1], ctl.stream)
    /\ UNCHANGED <<input, ast, pc, storage, stdout, stderr, exit, log>>

\* a bug: `if let` for `while let`, the body runs once
LoopContinues_Mut(out) == FALSE

\* whether `while let Some(stream) = stream_loop` goes round again
LoopContinues(out) == IsSome(out)

\* a bug: a finished loop reports success
LoopResult_Mut(out) == Some(Void)

\* what "loop" returns once the while let has ended: stream_loop itself
LoopResult(out) == out

\* a bug: every pass of the loop gets the stream the loop was called with
LoopNextStream_Mut(frame, v) == frame.stream

\* the stream of the next pass: the one `while let Some(stream)` has bound
LoopNextStream(frame, v) == v

\* stream_loop = interpret(&[], &args[0], stream): again, or leave
RetLoop ==
    /\ Returning
    /\ TopIsPrimitive({L_loop})
    /\ IF LoopContinues(ctl.out)
       THEN /\ stack' = stack
            /\ ctl' = CallCtl(<<>>, Top.args[1], LoopNextStream(Top, ctl.out[2]))
       ELSE /\ stack' = Pop
            /\ ctl' = RetCtl(LoopResult(ctl.out))
    /\ UNCHANGED <<input, ast, pc, storage, stdout, stderr, exit, log>>

(***************************************************************************)
(* The runs checked.  A program is given as the generic operator tree the  *)
(* parser hands to convert; the trees of the evaluator families carry the  *)
(* parentheses the grammar's precedence asks for.                          *)
(***************************************************************************)
Leaf(label) == NodePrimitive(label)
Quoted(s) == NodePrimitive(<<Quote>> \o s \o <<Quote>>)
Par(n) == Parentheses(n)
Dot(n1, n2) == Operator(<<".">>, n1, n2)
Pipe(n1, n2) == Operator(<<"-", ">">>, n1, n2)
PipeBack(n1, n2) == Operator(<<"<", "-">>, n1, n2)
Semi(n1, n2) == Operator(<<";">>, n1, n2)
Bar(n1, n2) == Operator(<<"|">>, n1, n2)
Bin(label, n1, n2) == Operator(label, n1, n2)
VarDecl(label) == Operator(Backslash, Placeholder, Leaf(label))

kA == <<"a">>
kB == <<"b">>
kQ == <<"q">>
L_foo == <<"f", "o", "o">>

LoadOf(k) == Dot(Quoted(k), Leaf(L_load))
StoreOf(k) == Dot(Quoted(k), Leaf(L_store))
IntLit(s) == Par(Pipe(Quoted(s), Leaf(L_int)))
LoopOf(body) == Dot(Par(body), Leaf(L_loop))

OperatorLabels ==
    { <<";">>, <<"|">>, <<"-", ">">>, <<"<", "-">>, L_le, L_eq, L_ne, L_lt,
      L_add, L_sub, L_mul, L_rem, Backslash, <<".">> }

\* ---- the adapter family: every tree of depth <= 1 over a few leaves, and
\* ---- trees of depth 2 built around the placeholder and the marker
AdapterLeaves ==
    { Placeholder, Leaf(L_pass), Leaf(L_int), Quoted(kA),
      Quoted(<<>>) }

AdapterDepth1 ==
    AdapterLeaves
    \cup { Par(n) : n \in AdapterLeaves }
    \cup { Operator(l, n1, n2) : l \in OperatorLabels,
                                 n1 \in AdapterLeaves, n2 \in AdapterLeaves }

AdapterInner ==
    { Placeholder, Leaf(L_pass), Quoted(kA), Par(Placeholder), Par(Leaf(L_pass)),
      VarDecl(kA), Operator(Backslash, Placeholder, Quoted(kA)),
      Operator(Backslash, Leaf(L_pass), Leaf(kA)),
      Operator(Backslash, Placeholder, Placeholder),
      Pipe(Leaf(L_pass), Leaf(L_int)), Pipe(Placeholder, Leaf(L_pass)),
      Bin(L_add, Leaf(L_pass), Placeholder) }

AdapterDepth2 ==
    { Par(n) : n \in AdapterInner }
    \cup { Operator(l, n1, n2) : l \in OperatorLabels,
                                 n1 \in AdapterInner, n2 \in AdapterInner }

AdapterNodes == AdapterDepth1 \cup AdapterDepth2

AdapterRuns == { Run(n, Void, EmptyStorage, "main", TRUE) : n \in AdapterNodes }

\* ---- the evaluator family: statements, their sequences and alternatives
CountBody ==
    Semi(Bin(L_lt, LoadOf(kA), LoadOf(kB)),
         Pipe(Bin(L_add, LoadOf(kA), IntLit(<<"1">>)), StoreOf(kA)))

LoopBodies ==
    { Leaf(L_pass), Leaf(L_int), LoadOf(kQ), StoreOf(kA), Quoted(kA), Leaf(L_foo),
      CountBody, Pipe(StoreOf(kA), LoadOf(kQ)), Pipe(Leaf(L_int), StoreOf(kB)),
      Bar(LoadOf(kQ), Leaf(L_foo)), Placeholder }

Loops == { LoopOf(b) : b \in LoopBodies } \cup { Leaf(L_loop) }

\* statements that write the store, pass the stream on, or do neither
Writers == { StoreOf(kA), StoreOf(kB), Leaf(L_pass), Leaf(L_str) }

Atoms ==
    Writers
    \cup { LoadOf(kA), LoadOf(kB), LoadOf(kQ), Leaf(L_int), Leaf(L_output),
           Leaf(L_input),
           Leaf(L_foo), Quoted(kA), VarDecl(kA), Leaf(L_store), Leaf(L_load),
           Dot(Leaf(L_pass), Leaf(L_store)), Dot(Par(LoadOf(kQ)), Leaf(L_store)),
           Dot(IntLit(<<"3">>), Leaf(L_load)), Dot(Quoted(kA), Quoted(kB)),
           Bin(L_lt, LoadOf(kA), LoadOf(kB)), Bin(L_add, LoadOf(kA), LoadOf(kQ)),
           Bin(L_eq, Par(Pipe(LoadOf(kA), StoreOf(kQ))), LoadOf(kQ)) }

Pipes ==
    { Pipe(n1, n2) : n1 \in Writers, n2 \in Atoms }
    \cup { PipeBack(n2, n1) : n1 \in Writers, n2 \in {LoadOf(kQ), StoreOf(kB)} }

\* sequences that write and then succeed, soft-fail or panic
ShortPipes ==
    { Pipe(n1, n2) : n1 \in Writers,
                     n2 \in {LoadOf(kQ), Leaf(L_int), Leaf(L_foo), StoreOf(kB),
                             Quoted(kA)} }
    \cup { Pipe(Pipe(n1, n2), n3) : n1 \in Writers, n2 \in Writers,
                                     n3 \in {LoadOf(kQ), Leaf(L_foo)} }

Firsts == Atoms \cup ShortPipes \cup Loops

Seconds == { Leaf(L_pass), StoreOf(kB), LoadOf(kQ), Leaf(L_foo) }

Alternatives ==
    { Bar(n1, n2) : n1 \in Firsts, n2 \in Seconds }
    \cup { Bar(Bar(n1, LoadOf(kQ)), n2) : n1 \in ShortPipes,
                                          n2 \in {Leaf(L_pass), Leaf(L_foo)} }
    \cup { Semi(Par(Bar(n1, Leaf(L_pass))), LoadOf(kA)) : n1 \in Loops }

Sequences2 ==
    { Semi(n1, n2) : n1 \in Loops \cup {LoadOf(kQ), Leaf(L_foo)},
                     n2 \in {Leaf(L_pass), StoreOf(kB), Leaf(L_foo)} }

\* a literal as the callee of a "." call, bare or inside the callee
LiteralCallees ==
    { Dot(Quoted(kA), Par(Quoted(kB))),
      Dot(Quoted(kA), Par(Pipe(Leaf(L_pass), Quoted(kB)))),
      Dot(Quoted(kA), Par(Bar(LoadOf(kQ), Quoted(kB)))),
      Dot(Quoted(kA), Par(Bar(Quoted(kB), Leaf(L_pass)))) }

\* (("a".load -> "q".store -> "a".load) == "q".load): the right operand
\* reads what the left one has written
OrderProbe ==
    Bin(L_eq, Par(Pipe(Pipe(LoadOf(kA), StoreOf(kQ)), LoadOf(kA))), LoadOf(kQ))

EvalNodes ==
    {OrderProbe} \cup Atoms \cup Pipes \cup ShortPipes \cup Loops \cup Alternatives \cup Sequences2
    \cup LiteralCallees

EvalStreams == { Void, Int_(1), Str_(<<"5">>), Str_(<<"x">>) }

EvalStorages ==
    { EmptyStorage,
      [k \in {kA, kB} |-> IF k = kA THEN Int_(0) ELSE Int_(2)] }

\* tree n holds tree m
RECURSIVE Contains(_, _)
Contains(n, m) ==
    \/ n = m
    \/ n[1] = "NParentheses" /\ Contains(n[2], m)
    \/ n[1] = "NOperator" /\ (Contains(n[3], m) \/ Contains(n[4], m))

\* ("a".store).loop stores on every pass and never ends: the history of the
\* writes of a program that holds it is not recorded, every other run's is
EvalRun(n, v, st, harness) ==
    IF Contains(n, LoopOf(StoreOf(kA)))
    THEN RunUntraced(n, v, st, harness, TRUE)
    ELSE Run(n, v, st, harness, TRUE)

EvalRuns ==
    { EvalRun(n, v, st, "test") : n \in EvalNodes, v \in EvalStreams,
                                  st \in EvalStorages }
    \cup { EvalRun(n, Void, EmptyStorage, "main") : n \in EvalNodes }

\* ---- the arithmetic family: one binary built-in on two stored integers
EdgeInts ==
    { IntMin, IntMin + 1, -3, -2, -1, 0, 1, 2, 3, IntMax - 1, IntMax }

OperandValues ==
    { Int_(i) : i \in EdgeInts } \cup { Str_(<<"5">>), Void }

ArithStorages ==
    { [k \in {kA, kB} |-> IF k = kA THEN v1 ELSE v2] :
          v1 \in OperandValues, v2 \in OperandValues }

ArithNodes == { Bin(l, LoadOf(kA), LoadOf(kB)) : l \in BinaryLabels }

ArithRuns ==
    { Run(n, Void, st, "test", c) : n \in ArithNodes, st \in ArithStorages,
                                    c \in BOOLEAN }

\* ---- test_interpreter_1: ("3" -> int) + "a".load -> "b".store -> "b".load
Program1 ==
    Pipe(Pipe(Bin(L_add, IntLit(<<"3">>), LoadOf(kA)), StoreOf(kB)), LoadOf(kB))

\* storages that map "a" to an integer, alone or beside other keys
Program1Storages ==
    UNION { { [k \in {kA} |-> Int_(n)],
              [k \in {kA, kB} |-> IF k = kA THEN Int_(n) ELSE Int_(0)],
              [k \in {kA, kQ} |-> IF k = kA THEN Int_(n) ELSE Str_(<<"x">>)] } :
            n \in EdgeInts \cup {5} }

Program1Runs ==
    { Run(Program1, Void, st, "test", c) : st \in Program1Storages, c \in BOOLEAN }

\* ---- binary built-ins with an operand that returns None: the absent key
\* "q" on the left of an operand that would panic, or on the right of a text
LeftFails == { Bin(l, LoadOf(kQ), Leaf(L_foo)) : l \in BinaryLabels }
RightFails == { Bin(l, Quoted(kA), LoadOf(kQ)) : l \in BinaryLabels }

BinaryFailRuns ==
    { Run(n, v, st, "test", TRUE) : n \in LeftFails \cup RightFails,
                                    v \in {Void, Int_(1)}, st \in EvalStorages }

\* ---- "store" and "load" on a key operand that gives no text: Void, None
\* (the absent key "q"), an Int; alone and as the first branch of a Match
BadKeys == { Leaf(L_pass), Par(LoadOf(kQ)), IntLit(<<"3">>) }

BadKeyCalls == { Dot(k, Leaf(l)) : k \in BadKeys, l \in {L_store, L_load} }

BadKeyNodes ==
    BadKeyCalls \cup { Bar(n, n2) : n \in BadKeyCalls, n2 \in {Leaf(L_pass), StoreOf(kB)} }

BadKeyRuns ==
    { Run(n, v, st, "test", TRUE) : n \in BadKeyNodes, v \in {Void, Str_(<<"5">>)},
                                    st \in EvalStorages }

\* ---- the binary built-ins on every stream: the same operands and storage
\* under Void, an Int and two texts
StreamStorages ==
    { EmptyStorage, [k \in {kA} |-> Int_(2)] }
    \cup { [k \in {kA, kB} |-> IF k = kA THEN v[1] ELSE v[2]] :
              v \in { <<Int_(0), Int_(2)>>, <<Int_(2), Int_(0)>>, <<Int_(-3), Int_(2)>>,
                      <<Str_(<<"5">>), Int_(2)>>, <<Int_(2), Void>> } }

StreamRuns ==
    { Run(n, v, st, "test", TRUE) : n \in ArithNodes, v \in EvalStreams,
                                    st \in StreamStorages }

Inputs ==
    AdapterRuns \cup EvalRuns \cup ArithRuns \cup Program1Runs \cup BinaryFailRuns
    \cup BadKeyRuns \cup StreamRuns

(***************************************************************************)
(* The specification.                                                      *)
(***************************************************************************)
Init ==
    /\ input \in Inputs
    /\ ast = NoAst
    /\ pc = "parse"
    /\ ctl = IdleCtl
    /\ stack = <<>>
    /\ storage = input.storage
    /\ stdout = <<>>
    /\ stderr = <<>>
    /\ exit = <<>>
    /\ log = <<>>

Next ==
    \/ ParseAst
    \/ Finish
    \/ Unwind
    \/ CallArrow
    \/ RetArrow
    \/ CallMatch
    \/ RetMatch
    \/ CallMethod
    \/ CallScope
    \/ RetTransparent
    \/ CallVariable
    \/ CallLiteral
    \/ CallPure
    \/ CallOutput
    \/ CallInput
    \/ CallStore
    \/ RetStore
    \/ CallLoad
    \/ RetLoad
    \/ CallBinary
    \/ RetBinaryFirst
    \/ RetBinarySecond
    \/ CallLoop
    \/ RetLoop

Spec == Init /\ [][Next]_vars

(***************************************************************************)
(* test_interpreter_2: the nested-loop program, run on its own.  It adds   *)
(* up the i in 1 ..= x that no j in 2 .. i divides.                        *)
(***************************************************************************)
MaxX == 30
SmallX == 12

kX == <<"x">>
kI == <<"i">>
kJ == <<"j">>
kR == <<"r">>

\* "j".load < "i".load -> ("i".load % "j".load) != ("0" -> int);
\* "j".load + ("1" -> int) -> "j".store
InnerBody ==
    Semi(Pipe(Bin(L_lt, LoadOf(kJ), LoadOf(kI)),
              Bin(L_ne, Par(Bin(L_rem, LoadOf(kI), LoadOf(kJ))), IntLit(<<"0">>))),
         Pipe(Bin(L_add, LoadOf(kJ), IntLit(<<"1">>)), StoreOf(kJ)))

OuterBody ==
    Semi(Semi(Semi(Semi(
        Bin(L_le, LoadOf(kI), LoadOf(kX)),
        Pipe(Pipe(Quoted(<<"2">>), Leaf(L_int)), StoreOf(kJ))),
        Bar(LoopOf(InnerBody), Leaf(L_pass))),
        Bar(Pipe(Pipe(Bin(L_eq, LoadOf(kJ), LoadOf(kI)),
                      Bin(L_add, LoadOf(kR), LoadOf(kI))),
                 StoreOf(kR)),
            Leaf(L_pass))),
        Pipe(Bin(L_add, LoadOf(kI), IntLit(<<"1">>)), StoreOf(kI)))

Program2 ==
    Semi(Semi(Semi(Semi(
        StoreOf(kX),
        Pipe(Pipe(Quoted(<<"1">>), Leaf(L_int)), StoreOf(kI))),
        Pipe(Pipe(Quoted(<<"0">>), Leaf(L_int)), StoreOf(kR))),
        Bar(LoopOf(OuterBody), Leaf(L_pass))),
        LoadOf(kR))

\* the streams given to it: every x up to SmallX, the test's x, and two
\* streams that are no integer
Program2Streams ==
    { Int_(x) : x \in (-2 .. SmallX) \cup {MaxX} } \cup { Void, Str_(<<"5">>) }

Program2Runs ==
    { RunUntraced(Program2, v, EmptyStorage, "test", TRUE) : v \in Program2Streams }

InitDivisors ==
    /\ input \in Program2Runs
    /\ ast = NoAst
    /\ pc = "parse"
    /\ ctl = IdleCtl
    /\ stack = <<>>
    /\ storage = input.storage
    /\ stdout = <<>>
    /\ stderr = <<>>
    /\ exit = <<>>
    /\ log = <<>>

\* the steps of a program without variables, "input" and "output"
NextDivisors ==
    \/ ParseAst
    \/ Finish
    \/ Unwind
    \/ CallArrow
    \/ RetArrow
    \/ CallMatch
    \/ RetMatch
    \/ CallMethod
    \/ CallScope
    \/ RetTransparent
    \/ CallLiteral
    \/ CallPure
    \/ CallStore
    \/ RetStore
    \/ CallLoad
    \/ RetLoad
    \/ CallBinary
    \/ RetBinaryFirst
    \/ RetBinarySecond
    \/ CallLoop
    \/ RetLoop

\* interpret runs in one thread: once called, it keeps taking steps until it
\* returns or panics
SpecDivisors ==
    InitDivisors /\ [][NextDivisors]_vars /\ WF_vars(pc = "run" /\ NextDivisors)

(***************************************************************************)
(* Vocabulary of the properties.                                           *)
(***************************************************************************)
\* parse_ast succeeded and bound ast
Parsed == pc \in {"run", "returned", "panicked"}

\* the first call of interpret, on the whole tree
RootCall == pc = "run" /\ ctl.mode = "call" /\ Len(stack) = 0

StoreCall(k) == Method(<<Literal(k)>>, Primitive(L_store))
LoadCall(k) == Method(<<Literal(k)>>, Primitive(L_load))
IsLoopCall(a) == a[1] = "Method" /\ a[3] = Primitive(L_loop)

Keys == {kA, kB, kQ}

\* the storage that results from the writes of `lg`, in order, on `st`
RECURSIVE Replay(_, _)
Replay(st, lg) ==
    IF Len(lg) = 0 THEN st
    ELSE Replay([k \in (DOMAIN st) \cup {lg[1][1]} |->
                    IF k = lg[1][1] THEN lg[1][2] ELSE st[k]], Tail(lg))

\* the root Alternative has fallen back: its activation runs its second branch
RootFellBack ==
    /\ pc = "run"
    /\ ast[1] = "Match"
    /\ Len(stack) >= 1
    /\ stack[1].pos = 2

\* the second branch of the root Alternative is about to start
RootSecondStarts == RootFellBack /\ Len(stack) = 1 /\ ctl.mode = "call"

(***************************************************************************)
(* C1: Alternative is not transactional.  When the first branch of an      *)
(* Alternative soft-fails, the second branch starts on exactly the stream  *)
(* the Alternative was entered with, and from then on, and when the        *)
(* Alternative has finished, the storage is the initial storage with every *)
(* write made so far applied in order: no write of the first branch is     *)
(* undone.                                                                 *)
(***************************************************************************)
C1_AlternativeKeepsWrites ==
    /\ RootSecondStarts =>
          /\ ctl.stream = input.stream
          /\ ctl.node = ast[3]
          /\ ctl.args = <<>>
    /\ (RootFellBack \/ (pc = "returned" /\ ast[1] = "Match")) =>
          storage = Replay(input.storage, log)

\* the first branch wrote, soft-failed, and the second branch starts
C1_Witness ==
    /\ RootSecondStarts
    /\ Len(log) >= 1
    /\ storage # input.storage
    /\ input.stream # Void

(***************************************************************************)
(* C2: `loop` never succeeds.  An activation of `loop` that ends without a *)
(* panic returns None, whatever its body, stream and storage; and so does  *)
(* a run whose tree is a `loop` call, or a Sequence with a `loop` call     *)
(* first.                                                                  *)
(***************************************************************************)
C2_LoopEnds ==
    (Returning /\ TopIsPrimitive({L_loop}) /\ Len(stack') < Len(stack))
        => ctl'.out = None

C2_RootLoop ==
    (pc = "returned" /\ (IsLoopCall(ast) \/ (ast[1] = "Arrow" /\ IsLoopCall(ast[2]))))
        => ctl.out = None

C2_LoopNeverSucceeds == [][C2_LoopEnds]_vars /\ []C2_RootLoop

\* a Sequence whose first operand is a loop that went round has returned
C2_Witness ==
    /\ pc = "returned"
    /\ ast[1] = "Arrow"
    /\ IsLoopCall(ast[2])
    /\ Len(log) >= 2

(***************************************************************************)
(* C3: Alternative(loop(body), pass), once the loop has ended by a soft    *)
(* failure, succeeds with exactly the stream it was entered with, and the  *)
(* storage holds every write of the iterations.                            *)
(***************************************************************************)
C3_LoopThenPass ==
    (pc = "returned" /\ ast[1] = "Match" /\ IsLoopCall(ast[2])
        /\ ast[3] = Primitive(L_pass))
    => /\ ctl.out = Some(input.stream)
       /\ storage = Replay(input.storage, log)

\* the loop wrote in two iterations and the stream entered with is not the
\* Void its last successful iteration returned
C3_Witness ==
    /\ pc = "returned"
    /\ ast[1] = "Match"
    /\ IsLoopCall(ast[2])
    /\ ast[3] = Primitive(L_pass)
    /\ Len(log) >= 2
    /\ input.stream # Void

(***************************************************************************)
(* C4: store then load with the same key returns the stored stream value,  *)
(* store itself returning Void and overwriting what the key held; load of  *)
(* an absent key returns None without a panic and leaves the storage as it *)
(* was.                                                                    *)
(***************************************************************************)
C4_StoreLoad ==
    \A k \in Keys :
        /\ (Parsed /\ ast = Arrow(StoreCall(k), LoadCall(k))) =>
              /\ pc # "panicked"
              /\ (Len(stack) = 1 /\ stack[1].pos = 1 /\ ctl.mode = "ret") =>
                    /\ ctl.out = Some(Void)
                    /\ storage = [x \in (DOMAIN input.storage) \cup {k} |->
                                    IF x = k THEN input.stream ELSE input.storage[x]]
              /\ pc = "returned" =>
                    /\ ctl.out = Some(input.stream)
                    /\ storage[k] = input.stream
                    /\ DOMAIN storage = (DOMAIN input.storage) \cup {k}
        /\ (Parsed /\ ast = LoadCall(k) /\ input.stream = Void
                /\ k \notin DOMAIN input.storage) =>
              /\ pc # "panicked"
              /\ pc = "returned" => (ctl.out = None /\ storage = input.storage)

\* a Text stream was stored over an earlier value and loaded back
C4_Witness ==
    /\ pc = "returned"
    /\ ast = Arrow(StoreCall(kA), LoadCall(kA))
    /\ kA \in DOMAIN input.storage
    /\ input.storage[kA] # input.stream
    /\ IsStr(input.stream)
    /\ ctl.out = Some(input.stream)

\* load of an absent key has soft-failed
C4_WitnessAbsent ==
    /\ pc = "returned"
    /\ ast = LoadCall(kQ)
    /\ ctl.out = None

(***************************************************************************)
(* Runs whose tree is one binary built-in on the stored integers x and y:  *)
(* "a".load <op> "b".load.                                                 *)
(***************************************************************************)
IsBinaryRoot(labels) ==
    /\ Parsed
    /\ ast[1] = "Method"
    /\ ast[2] = <<LoadCall(kA), LoadCall(kB)>>
    /\ ast[3][1] = "Primitive"
    /\ ast[3][2] \in labels
    /\ DOMAIN input.storage = {kA, kB}
    /\ IsInt(input.storage[kA])
    /\ IsInt(input.storage[kB])

OperandX == input.storage[kA][2]
OperandY == input.storage[kB][2]
RootLabel == ast[3][2]

\* the exact, unbounded result of + - *
Exact(label, x, y) ==
    CASE label = L_add -> x + y
      [] label = L_sub -> x - y
      [] label = L_mul -> x * y

\* r is the remainder of x by y under truncated division
IsRemainder(r, x, y) ==
    /\ Abs(r) < Abs(y)
    /\ r = 0 \/ ((r < 0) <=> (x < 0))
    /\ \E q \in (-Abs(x))..Abs(x) : x = q * y + r

ReturnedInt == IsSome(ctl.out) /\ IsInt(ctl.out[2])

(***************************************************************************)
(* C5 as stated: for all integers, with no excluded pair, + - * % succeed  *)
(* with Integer(a+b), Integer(a-b), Integer(a*b), Integer(a%b).            *)
(***************************************************************************)
C5_Original ==
    IsBinaryRoot(ArithLabels) =>
        /\ pc # "panicked"
        /\ pc = "returned" =>
              /\ ReturnedInt
              /\ IF RootLabel = L_rem
                 THEN IsRemainder(ctl.out[2][2], OperandX, OperandY)
                 ELSE ctl.out[2][2] = Exact(RootLabel, OperandX, OperandY)

(***************************************************************************)
(* C5, amended: + - * succeed with the exact result whenever it lies in    *)
(* the integer range; % succeeds with the remainder of truncated division  *)
(* whenever the divisor is not zero and the pair is not (MIN, -1).  A zero *)
(* divisor and MIN % -1 are fatal faults; a result of + - * outside the    *)
(* range is a fatal fault in a build with overflow checks and wraps        *)
(* around in a build without.                                              *)
(***************************************************************************)
C5_Arithmetic ==
    IsBinaryRoot(ArithLabels) =>
        IF RootLabel = L_rem
        THEN IF OperandY = 0 \/ (OperandX = IntMin /\ OperandY = -1)
             THEN pc # "returned"
             ELSE /\ pc # "panicked"
                  /\ pc = "returned" =>
                        (ReturnedInt /\ IsRemainder(ctl.out[2][2], OperandX, OperandY))
        ELSE LET e == Exact(RootLabel, OperandX, OperandY)
             IN IF IntMin <= e /\ e <= IntMax
                THEN /\ pc # "panicked"
                     /\ pc = "returned" => ctl.out = Some(Int_(e))
                ELSE IF input.checks
                THEN pc # "returned"
                ELSE /\ pc # "panicked"
                     /\ pc = "returned" =>
                           /\ ReturnedInt
                           /\ IntMin <= ctl.out[2][2] /\ ctl.out[2][2] <= IntMax
                           /\ (ctl.out[2][2] - e) % (2 ^ IntBits) = 0

\* a negative dividend has given a negative remainder
C5_Witness ==
    /\ IsBinaryRoot({L_rem})
    /\ pc = "returned"
    /\ OperandX = -3
    /\ OperandY = 2
    /\ ctl.out = Some(Int_(-1))

(***************************************************************************)
(* C6: on two integers, == != =< < return Some(Void) exactly when the      *)
(* relation holds and None otherwise; they never panic and never return    *)
(* another value.                                                          *)
(***************************************************************************)
Holds(label, x, y) ==
    CASE label = L_eq -> x = y
      [] label = L_ne -> x # y
      [] label = L_le -> x <= y
      [] label = L_lt -> x < y

C6_Comparisons ==
    IsBinaryRoot(CompareLabels) =>
        /\ pc # "panicked"
        /\ pc = "returned" =>
              ctl.out = IF Holds(RootLabel, OperandX, OperandY) THEN Some(Void) ELSE None

\* "=<" on equal integers has succeeded with Void
C6_Witness ==
    /\ IsBinaryRoot({L_le})
    /\ pc = "returned"
    /\ OperandX = OperandY
    /\ ctl.out = Some(Void)

(***************************************************************************)
(* C7: a fatal fault is never caught.  A panic ends the run at once: every *)
(* activation is dropped, nothing runs afterwards, and the storage is left *)
(* as it was.  An Alternative starts its second branch, and a loop ends,   *)
(* only on None.  A tree that must panic (a name that is no built-in, a    *)
(* variable reference, a literal on a stream that is not Void, reached     *)
(* through sequences, scopes and first branches) never returns, and no     *)
(* Alternative at any depth whose first branch must panic ever runs its    *)
(* second branch.                                                          *)
(***************************************************************************)
RECURSIVE MustPanic(_, _)
MustPanic(a, stream) ==
    CASE a[1] = "Primitive" -> a[2] \notin KnownLabels
      [] a[1] = "Variable" -> TRUE
      [] a[1] = "Literal" -> stream # Void
      [] a[1] = "Scope" -> MustPanic(a[2], stream)
      [] a[1] = "Match" -> MustPanic(a[2], stream)
      [] a[1] = "Arrow" ->
            \/ MustPanic(a[2], stream)
            \/ a[2] = Primitive(L_pass) /\ MustPanic(a[3], stream)
            \/ a[2] \in {StoreCall(k) : k \in Keys} /\ MustPanic(a[3], Void)
      [] OTHER -> FALSE

C7_PanicEndsRun ==
    (pc = "run" /\ ctl.mode = "ret" /\ ctl.out = Panic)
        => (pc' = "panicked" /\ stack' = <<>> /\ storage' = storage /\ stdout' = stdout)

C7_NothingAfterPanic == pc = "panicked" => UNCHANGED vars

C7_OnlyNoneIsCaught ==
    (pc = "run" /\ ctl.mode = "ret" /\ Len(stack) > 0 /\ pc' = "run") =>
        /\ (TopIs("Match") /\ Top.pos = 1 /\ ctl'.mode = "call") => ctl.out = None
        /\ (TopIsPrimitive({L_loop}) /\ Len(stack') < Len(stack)) => ctl.out = None

C7_MustPanicNeverReturns ==
    /\ (Parsed /\ MustPanic(ast, input.stream)) => pc # "returned"
    /\ \A i \in 1..Len(stack) :
          (stack[i].node[1] = "Match" /\ stack[i].pos = 2)
              => ~MustPanic(stack[i].node[2], stack[i].stream)

C7_FatalNeverCaught ==
    /\ [][C7_PanicEndsRun /\ C7_NothingAfterPanic /\ C7_OnlyNoneIsCaught]_vars
    /\ []C7_MustPanicNeverReturns

\* a panic inside the first branch of a nested Alternative has ended the run
\* after a write, with the second branches never started
C7_Witness ==
    /\ pc = "panicked"
    /\ ast[1] = "Match"
    /\ ast[2][1] = "Match"
    /\ MustPanic(ast, input.stream)
    /\ Len(log) >= 1

(***************************************************************************)
(* C8 as stated: run by main, the process exits with 0 exactly when the    *)
(* evaluation succeeds with Void, and in every other outcome, the fatal    *)
(* fault included, it prints the diagnostic and exits with 1.              *)
(***************************************************************************)
MainEnded == input.harness = "main" /\ pc \in {"returned", "panicked"}

C8_Original ==
    MainEnded =>
        IF pc = "returned" /\ ctl.out = Some(Void)
        THEN exit = <<0>>
        ELSE exit = <<1>> /\ stderr = <<DiagExecute>>

(***************************************************************************)
(* C8, amended: the process exits with 0 exactly when the evaluation       *)
(* succeeds with Void; a soft failure and a success with another value     *)
(* print the diagnostic and exit with 1; a fatal fault is a panic of the   *)
(* main thread, which never reaches the diagnostic: the process ends with  *)
(* the panic report and the panic status 101.                              *)
(***************************************************************************)
C8_ExitStatus ==
    MainEnded =>
        /\ (exit = <<0>>) <=> (pc = "returned" /\ ctl.out = Some(Void))
        /\ (pc = "returned" /\ ctl.out = Some(Void)) => stderr = <<>>
        /\ (pc = "returned" /\ ctl.out # Some(Void)) =>
              (exit = <<1>> /\ stderr = <<DiagExecute>>)
        /\ pc = "panicked" => (exit = <<101>> /\ stderr = <<DiagPanic>>)

\* main has exited with 1 after a success with a value that is not Void
C8_Witness ==
    /\ MainEnded
    /\ pc = "returned"
    /\ IsSome(ctl.out)
    /\ ctl.out # Some(Void)
    /\ exit = <<1>>

\* main has ended by a panic
C8_WitnessPanic == MainEnded /\ pc = "panicked" /\ exit = <<101>>

(***************************************************************************)
(* C9: convert maps a binary operator node, its children converted to l    *)
(* and r, by its label: ";" and "->" to Arrow(l, r), "<-" to Arrow(r, l),  *)
(* "|" to Match(l, r), "." to Method([l], r), every other label but the    *)
(* marker to Method([l, r], Primitive(label)); a parenthesised tree        *)
(* becomes Scope.  The node is rejected exactly when a child is.           *)
(***************************************************************************)
C9_Expected(label, l, r) ==
    IF label \in {<<";">>, <<"-", ">">>} THEN Arrow(l, r)
    ELSE IF label = <<"<", "-">> THEN Arrow(r, l)
    ELSE IF label = <<"|">> THEN Match(l, r)
    ELSE IF label = <<".">> THEN Method(<<l>>, r)
    ELSE Method(<<l, r>>, Primitive(label))

C9_OperatorMapping ==
    /\ (pc # "parse" /\ input.node[1] = "NOperator" /\ input.node[2] # Backslash) =>
          LET l == convert(input.node[3])
              r == convert(input.node[4])
          IN IF l = Err \/ r = Err
             THEN pc = "rejected" /\ ast = NoAst
             ELSE /\ pc # "rejected"
                  /\ ast = C9_Expected(input.node[2], l[2], r[2])
                  /\ RootCall => ctl.node = ast
    /\ (pc # "parse" /\ input.node[1] = "NParentheses") =>
          LET inner == convert(input.node[2])
          IN IF inner = Err
             THEN pc = "rejected" /\ ast = NoAst
             ELSE pc # "rejected" /\ ast = Scope(inner[2])

\* "<-" has been converted with its operands swapped
C9_Witness ==
    /\ RootCall
    /\ input.node[1] = "NOperator"
    /\ input.node[2] = <<"<", "-">>
    /\ ast = Arrow(Primitive(L_int), Primitive(L_pass))

(***************************************************************************)
(* C10: convert yields Variable(id) exactly for the node (placeholder,     *)
(* marker, leaf id); a tree with a placeholder anywhere else (alone, under *)
(* another operator, in parentheses, right of the marker, or left of a     *)
(* marker whose right operand is no leaf) is rejected whole, and no tree   *)
(* is bound.                                                               *)
(***************************************************************************)
IsVarDecl(n) ==
    /\ n[1] = "NOperator"
    /\ n[2] = Backslash
    /\ n[3] = Placeholder
    /\ n[4][1] = "NPrimitive"

RECURSIVE HasStrayPlaceholder(_)
HasStrayPlaceholder(n) ==
    CASE n[1] = "NPlaceholder" -> TRUE
      [] n[1] = "NParentheses" -> HasStrayPlaceholder(n[2])
      [] n[1] = "NPrimitive" -> FALSE
      [] n[1] = "NOperator" ->
            IF IsVarDecl(n) THEN FALSE
            ELSE HasStrayPlaceholder(n[3]) \/ HasStrayPlaceholder(n[4])

RECURSIVE CountVarDecl(_)
CountVarDecl(n) ==
    CASE n[1] = "NParentheses" -> CountVarDecl(n[2])
      [] n[1] = "NOperator" ->
            IF IsVarDecl(n) THEN 1 ELSE CountVarDecl(n[3]) + CountVarDecl(n[4])
      [] OTHER -> 0

RECURSIVE CountVariable(_)
RECURSIVE SumVariables(_)
CountVariable(a) ==
    CASE a[1] = "Variable" -> 1
      [] a[1] = "Scope" -> CountVariable(a[2])
      [] a[1] \in {"Arrow", "Match"} -> CountVariable(a[2]) + CountVariable(a[3])
      [] a[1] = "Method" -> SumVariables(a[2]) + CountVariable(a[3])
      [] OTHER -> 0
SumVariables(as) ==
    IF Len(as) = 0 THEN 0 ELSE CountVariable(as[1]) + SumVariables(Tail(as))

C10_VariableExactly ==
    /\ Parsed =>
          /\ (ast[1] = "Variable") <=> IsVarDecl(input.node)
          /\ IsVarDecl(input.node) => ast = Variable(input.node[4][2])
          /\ CountVariable(ast) = CountVarDecl(input.node)
    /\ (pc # "parse" /\ HasStrayPlaceholder(input.node)) =>
          (pc = "rejected" /\ ast = NoAst /\ ctl = IdleCtl)

\* the marker on a placeholder and a leaf has become a variable reference
C10_Witness == RootCall /\ ast = Variable(kA) /\ input.node = VarDecl(kA)

\* a placeholder right of the marker has had the tree rejected
C10_WitnessRejected ==
    /\ pc = "rejected"
    /\ input.node = Operator(Backslash, Placeholder, Placeholder)

(***************************************************************************)
(* C11: test_interpreter_1.  On the Void stream and a storage that maps    *)
(* "a" to Int(n), the program                                              *)
(*     ("3" -> int) + "a".load -> "b".store -> "b".load                    *)
(* returns Some(Int(3 + n)) and leaves the storage it started from with    *)
(* "b" set to Int(3 + n) and every other key as it was.  As stated, for    *)
(* every n, this fails where 3 + n leaves the integer range.               *)
(***************************************************************************)
IsProgram1 == input \in Program1Runs

C11_Sum == 3 + input.storage[kA][2]

C11_Final ==
    [k \in (DOMAIN input.storage) \cup {kB} |->
        IF k = kB THEN Int_(C11_Sum) ELSE input.storage[k]]

C11_Succeeds ==
    /\ pc # "panicked"
    /\ ctl.out # Panic
    /\ pc = "returned" => ctl.out = Some(Int_(C11_Sum)) /\ storage = C11_Final

\* the claim as stated: for every n
C11_Original == IsProgram1 => C11_Succeeds

\* C11, amended: for every n with 3 + n in the integer range the program
\* returns Some(Int(3 + n)) and the storage is the initial one with "b" set
\* to Int(3 + n); for the other n the addition overflows: it panics under
\* overflow checks, before any write, and wraps without them.
C11_Program1 ==
    IsProgram1 =>
        IF InRange(C11_Sum) THEN C11_Succeeds
        ELSE IF input.checks
        THEN pc # "returned" /\ storage = input.storage
        ELSE pc = "returned" =>
                /\ ctl.out = Some(Int_(Wrap(C11_Sum)))
                /\ storage = [C11_Final EXCEPT ![kB] = Int_(Wrap(C11_Sum))]

\* the test's own case: {a: 5} gives 8 and {a: 5, b: 8}
C11_Witness ==
    /\ IsProgram1
    /\ input.storage = [k \in {kA} |-> Int_(5)]
    /\ pc = "returned"
    /\ ctl.out = Some(Int_(8))
    /\ storage = [k \in {kA, kB} |-> IF k = kA THEN Int_(5) ELSE Int_(8)]

\* the sum overflows and the run panics
C11_WitnessOverflow ==
    IsProgram1 /\ ~InRange(C11_Sum) /\ input.checks /\ pc = "panicked"
(***************************************************************************)
(* C12: test_interpreter_2.  On the empty storage and the stream Int(x),   *)
(* for every x checked (-2 .. SmallX and MaxX), the nested-loop program,   *)
(* once interpret is called on it, comes to an end, and it ends by         *)
(* returning one integer: the sum of the i in 1 ..= x that no j in 2 .. i  *)
(* divides.  For x = 30 that is Int(129).  No step of it panics.           *)
(***************************************************************************)
NoDivisor(i) == i >= 2 /\ \A j \in 2 .. (i - 1) : i % j # 0

RECURSIVE SumNoDivisor(_)
SumNoDivisor(x) ==
    IF x < 2 THEN 0
    ELSE SumNoDivisor(x - 1) + (IF NoDivisor(x) THEN x ELSE 0)

IsProgram2 == input \in Program2Runs /\ IsInt(input.stream)

C12_Result ==
    IsProgram2 =>
        /\ pc # "panicked"
        /\ ctl.out # Panic
        /\ pc = "returned" =>
              /\ ctl.out = Some(Int_(SumNoDivisor(input.stream[2])))
              /\ input.stream = Int_(30) => ctl.out = Some(Int_(129))

C12_Called == IsProgram2 /\ pc = "run"

C12_Divisors == []C12_Result /\ (C12_Called ~> pc = "returned")

C12_Witness ==
    /\ IsProgram2
    /\ input.stream = Int_(MaxX)
    /\ pc = "returned"
    /\ ctl.out = Some(Int_(SumNoDivisor(MaxX)))
    /\ ctl.out[2][2] >= 129
    /\ storage[kI] = Int_(MaxX + 1)
(***************************************************************************)
(* C13: a Literal returns Some(Str(contents)) exactly when it is called    *)
(* with the Void stream and an empty args; called with any other stream,   *)
(* or with args that are not empty (it is the callee of a Method, or sits  *)
(* in an Arrow, Match or Scope that is), it panics: it never returns None. *)
(***************************************************************************)
C13_LiteralStep ==
    (Calling /\ ctl.node[1] = "Literal") =>
        /\ ctl'.mode = "ret"
        /\ ctl'.out # None
        /\ (ctl.stream = Void /\ ctl.args = <<>>) <=> (ctl'.out # Panic)
        /\ ctl'.out # Panic => ctl'.out = Some(Str_(ctl.node[2]))
        /\ UNCHANGED <<stack, storage, stdout, log>>

\* the whole program is a literal
C13_Root ==
    (Parsed /\ ast[1] = "Literal") =>
        /\ pc = "returned" => input.stream = Void /\ ctl.out = Some(Str_(ast[2]))
        /\ input.stream # Void =>
              pc # "returned" /\ (ctl.mode = "ret" => ctl.out = Panic)

\* the literal is the callee, or is reached inside the callee
C13_Callee ==
    input.node \in LiteralCallees =>
        /\ pc # "returned"
        /\ (ctl.mode = "ret" /\ Len(stack) = 0) => ctl.out = Panic

C13_TextLiteral == [][C13_LiteralStep]_vars /\ [](C13_Root /\ C13_Callee)

\* a literal reached by fallback inside a callee has panicked on its args
C13_Witness ==
    /\ input.node = Dot(Quoted(kA), Par(Bar(LoadOf(kQ), Quoted(kB))))
    /\ pc = "run"
    /\ ctl = RetCtl(Panic)
    /\ Len(stack) > 0
    /\ TopIs("Match")
    /\ Top.pos = 2
    /\ Top.args = <<Literal(kA)>>
    /\ Top.stream = Void

\* a literal program on the Void stream has returned its text
C13_WitnessText ==
    Parsed /\ ast = Literal(kA) /\ pc = "returned" /\ ctl.out = Some(Str_(kA))
(***************************************************************************)
(* C14: "loop" ends exactly when a pass of its body returns None (or       *)
(* panics).  The first pass gets the stream "loop" was called with, each   *)
(* later pass gets the value the pass before it returned, and after every  *)
(* pass that returns Some the body runs once more: a body that always      *)
(* returns Some, such as pass, keeps the run going for ever.               *)
(***************************************************************************)
C14_FirstPass ==
    (Calling /\ ctl.node = Primitive(L_loop) /\ Len(ctl.args) > 0) =>
        /\ ctl' = CallCtl(<<>>, ctl.args[1], ctl.stream)
        /\ stack' = Push(Frame(ctl.args, ctl.node, ctl.stream, 1, Void))

C14_NextPass ==
    (Returning /\ TopIsPrimitive({L_loop})) =>
        IF IsSome(ctl.out)
        THEN stack' = stack /\ ctl' = CallCtl(<<>>, Top.args[1], ctl.out[2])
        ELSE ctl.out = None /\ stack' = Pop /\ ctl' = RetCtl(None)

\* the activation of a "loop" goes away only on a None or a panic
C14_EndsOnlyOnNone ==
    (pc = "run" /\ Len(stack) > 0 /\ TopIsPrimitive({L_loop})
        /\ Len(stack') < Len(stack))
    => (ctl.mode = "ret" /\ ctl.out \in {None, Panic})

LoopCall(body) == Method(<<Scope(body)>>, Primitive(L_loop))

\* pass.loop never returns and never panics
C14_PassForever == (Parsed /\ ast = LoopCall(Primitive(L_pass))) => pc = "run"

\* a literal body returns its text on the Void stream and panics on that text
\* in the second pass; "int -> store" on Str("5") writes once and panics on
\* the Void the first pass returned
C14_SecondPass ==
    /\ (Parsed /\ ast = LoopCall(Literal(kA))) => pc # "returned"
    /\ (Parsed /\ ast = LoopCall(Arrow(Primitive(L_int), StoreCall(kB)))
          /\ input.stream = Str_(<<"5">>))
        => /\ pc # "returned"
           /\ log \in {<<>>, << <<kB, Int_(5)>> >>}

C14_Loop ==
    /\ [][C14_FirstPass /\ C14_NextPass /\ C14_EndsOnlyOnNone]_vars
    /\ [](C14_PassForever /\ C14_SecondPass)

\* the second pass of a literal body got the text of the first and panicked
C14_Witness ==
    /\ Parsed
    /\ ast = LoopCall(Literal(kA))
    /\ input.stream = Void
    /\ pc = "run"
    /\ ctl = RetCtl(Panic)
    /\ TopIs("Scope")
    /\ Top.stream = Str_(kA)

\* pass.loop is in a later pass, on the stream it started with
C14_WitnessPass ==
    /\ Parsed
    /\ ast = LoopCall(Primitive(L_pass))
    /\ Returning
    /\ TopIsPrimitive({L_loop})
    /\ ctl.out = Some(Int_(1))
(***************************************************************************)
(* C15: evaluation is strictly left to right.  At every moment the         *)
(* activations form one path of the tree, each working on the child its    *)
(* position names; an Arrow starts obj2 only when obj1 has returned Some,  *)
(* a binary built-in starts args[1] only when args[0] has returned Some,   *)
(* a Match starts obj2 only when obj1 has returned None: the writes of     *)
(* the first are in the storage by then, in order, and the second reads    *)
(* them.                                                                   *)
(***************************************************************************)
\* the child an activation is working on
ActiveChild(f) ==
    CASE f.node[1] \in {"Arrow", "Match"} -> f.node[1 + f.pos]
      [] f.node[1] = "Method" -> f.node[3]
      [] f.node[1] = "Scope" -> f.node[2]
      [] f.node[1] = "Primitive" -> f.args[f.pos]

C15_OnePath ==
    pc = "run" =>
        /\ \A i \in 1 .. (Len(stack) - 1) : stack[i + 1].node = ActiveChild(stack[i])
        /\ (ctl.mode = "call" /\ Len(stack) > 0) => ctl.node = ActiveChild(Top)
        /\ (ctl.mode = "call" /\ Len(stack) = 0) => ctl.node = ast

\* an activation moves on to its second child
SecondChildStarts ==
    /\ pc = "run"
    /\ Len(stack) > 0
    /\ Len(stack') = Len(stack)
    /\ Top.pos = 1
    /\ stack'[Len(stack')].pos = 2

C15_SecondAfterFirst ==
    SecondChildStarts =>
        /\ ctl.mode = "ret"
        /\ ctl'.mode = "call"
        /\ stack' = ReplaceTop([stack'[Len(stack')] EXCEPT !.pos = 2])
        /\ ctl'.node = ActiveChild(stack'[Len(stack')])
        /\ storage' = storage
        /\ input.trace => storage = Replay(input.storage, log)
        /\ IF TopIs("Match") THEN ctl.out = None ELSE IsSome(ctl.out)

\* only a first child that has returned lets a position change
C15_PositionsOnlyGrow ==
    \A i \in 1 .. Len(stack) :
        (i <= Len(stack') /\ stack'[i].pos # stack[i].pos) =>
            (i = Len(stack) /\ SecondChildStarts)

\* the writes of a -> b -> x are made in that order, a's before b's
C15_WritesInOrder ==
    (Parsed /\ ast[1] = "Arrow" /\ ast[2] = Arrow(StoreCall(kA), StoreCall(kB))) =>
        log \in { <<>>, << <<kA, input.stream>> >>,
                  << <<kA, input.stream>>, <<kB, Void>> >> }

\* the right operand of OrderProbe reads the key the left one has written
C15_RightSeesLeft ==
    (input.node = OrderProbe /\ kA \in DOMAIN input.storage) =>
        /\ pc # "panicked"
        /\ (pc = "run" /\ ctl.mode = "ret") => ctl.out # None
        /\ pc = "returned" =>
              /\ ctl.out = Some(Void)
              /\ storage[kQ] = input.storage[kA]

\* a fallback that writes does so after the writes of the failed first branch
C15_FallbackWritesLast ==
    (Parsed /\ ast = Match(Arrow(StoreCall(kA), LoadCall(kQ)), StoreCall(kB))
        /\ kQ \notin DOMAIN input.storage) =>
        log \in { <<>>, << <<kA, input.stream>> >>,
                  << <<kA, input.stream>>, <<kB, input.stream>> >> }

C15_LeftToRight ==
    /\ [][C15_SecondAfterFirst /\ C15_PositionsOnlyGrow]_vars
    /\ [](C15_OnePath /\ C15_WritesInOrder /\ C15_RightSeesLeft
            /\ C15_FallbackWritesLast)

\* the right operand of OrderProbe has returned the value written on the left
C15_Witness ==
    /\ input.node = OrderProbe
    /\ Returning
    /\ TopIsPrimitive({L_eq})
    /\ Top.pos = 2
    /\ log = << <<kQ, Int_(0)>> >>
    /\ ctl.out = Some(Int_(0))
    /\ Top.o1 = Int_(0)
(***************************************************************************)
(* C16: Arrow (a -> b, a ; b) short-circuits.  When a returns None, b is   *)
(* not evaluated at all, the Arrow returns None, and the storage and the   *)
(* output are as a left them.  When a returns Some(v), b is evaluated on   *)
(* the stream v with the args of the Arrow, and what b returns is what     *)
(* the Arrow returns.                                                      *)
(***************************************************************************)
C16_FirstReturns ==
    (Returning /\ TopIs("Arrow") /\ Top.pos = 1) =>
        /\ UNCHANGED <<storage, stdout, log>>
        /\ IF ctl.out = None
           THEN stack' = Pop /\ ctl' = RetCtl(None)
           ELSE /\ IsSome(ctl.out)
                /\ stack' = ReplaceTop([Top EXCEPT !.pos = 2])
                /\ ctl' = CallCtl(Top.args, Top.node[3], ctl.out[2])

C16_SecondReturns ==
    (Returning /\ TopIs("Arrow") /\ Top.pos = 2) =>
        /\ stack' = Pop
        /\ ctl' = ctl
        /\ UNCHANGED <<storage, stdout, log>>

\* programs a ; b whose a returns None: a load of an absent key on the Void
\* stream, or a loop
C16_FirstFails ==
    /\ Parsed
    /\ ast[1] = "Arrow"
    /\ \/ IsLoopCall(ast[2])
       \/ ast[2] = LoadCall(kQ) /\ input.stream = Void /\ kQ \notin DOMAIN input.storage

\* b never starts; the result is None or the panic of a, the storage is what
\* the writes of a made it
C16_SecondNeverStarts ==
    C16_FirstFails =>
        /\ Len(stack) >= 1 => stack[1].pos = 1
        /\ input.trace => storage = Replay(input.storage, log)
        /\ ~input.trace =>
              \A k \in (DOMAIN storage) \ {kA} :
                  k \in DOMAIN input.storage /\ storage[k] = input.storage[k]
        /\ pc = "returned" => ctl.out = None
        /\ pc = "panicked" => IsLoopCall(ast[2])

(* built-in returns None, it does not panic; when args[0] returns None,    *)
(* args[1] is never evaluated; when both return Some and one of the two    *)
(* values is not an Int, the built-in panics.                              *)
(***************************************************************************)
C17_OperandReturns ==
    (Returning /\ TopIsPrimitive(BinaryLabels) /\ Len(Top.args) >= 2) =>
        /\ UNCHANGED <<storage, stdout, log>>
        /\ ctl.out = None => stack' = Pop /\ ctl' = RetCtl(None)
        /\ (Top.pos = 1 /\ IsSome(ctl.out)) => ctl' = CallCtl(<<>>, Top.args[2], Void)
        /\ (Top.pos = 2 /\ IsSome(ctl.out) /\ ~(IsInt(Top.o1) /\ IsInt(ctl.out[2])))
              => stack' = Pop /\ ctl' = RetCtl(Panic)

\* the left operand is absent: the right one, which would panic, is not run
C17_LeftNone ==
    (input.node \in LeftFails /\ kQ \notin DOMAIN input.storage) =>
        /\ pc # "panicked"
        /\ pc = "returned" => ctl.out = None
        /\ Len(stack) >= 2 => stack[2].pos = 1

\* the left operand is a text, the right one absent: None, not a panic
C17_RightNone ==
    (input.node \in RightFails /\ kQ \notin DOMAIN input.storage) =>
        /\ pc # "panicked"
        /\ pc = "returned" => ctl.out = None

\* two stored values, one of them not an Int: the run never returns
C17_NotBothInt ==
    (input \in ArithRuns
        /\ ~(IsInt(input.storage[kA]) /\ IsInt(input.storage[kB])))
    => /\ pc # "returned"
       /\ (ctl.mode = "ret" /\ Len(stack) = 0) => ctl.out = Panic

C17_BinaryOperands ==
    /\ [][C17_OperandReturns]_vars
    /\ [](C17_LeftNone /\ C17_RightNone /\ C17_NotBothInt)

\* a text on the left and an absent key on the right have given None
C17_Witness ==
    /\ input.node \in RightFails
    /\ pc = "returned"
    /\ ctl.out = None

C17_WitnessLeft ==
    /\ input.node \in LeftFails
    /\ pc = "returned"
    /\ ctl.out = None

C17_WitnessPanic ==
    /\ input \in ArithRuns
    /\ IsInt(input.storage[kA])
    /\ input.storage[kB] = Void
    /\ pc = "panicked"
(***************************************************************************)
(* C18: "store" and "load" evaluate their key operand on the Void stream   *)
(* with an empty args.  When the operand returns anything but Some(Str) -  *)
(* an Int, Void, or None - the built-in panics: no Match catches it, and   *)
(* "store" has written nothing.                                            *)
(***************************************************************************)
KeyedLabels == {L_store, L_load}

C18_KeyCalled ==
    (Calling /\ ctl.node[1] = "Primitive" /\ ctl.node[2] \in KeyedLabels
        /\ ctl'.mode = "call")
    => /\ ctl' = CallCtl(<<>>, ctl.args[1], Void)
       /\ storage' = storage

C18_KeyReturned ==
    (Returning /\ TopIsPrimitive(KeyedLabels)
        /\ ~(IsSome(ctl.out) /\ IsStr(ctl.out[2])))
    => /\ ctl' = RetCtl(Panic)
       /\ stack' = Pop
       /\ UNCHANGED <<storage, log, stdout>>

\* the programs with a key that is no text: they end in a panic, whatever
\* the stream, with the storage untouched and no fallback taken
C18_BadKey ==
    input \in BadKeyRuns =>
        /\ pc # "returned"
        /\ (ctl.mode = "ret" /\ Len(stack) = 0) => ctl.out = Panic
        /\ storage = input.storage
        /\ log = <<>>
        /\ ~RootFellBack

C18_KeyOperand ==
    [][C18_KeyCalled /\ C18_KeyReturned]_vars /\ []C18_BadKey

\* a store whose key operand returned None has panicked in the first branch
\* of a Match whose second branch would have written
C18_Witness ==
    /\ input.node = Bar(Dot(Par(LoadOf(kQ)), Leaf(L_store)), StoreOf(kB))
    /\ input.stream = Str_(<<"5">>)
    /\ pc = "panicked"
    /\ storage = input.storage

C18_WitnessLoad ==
    /\ input.node = Bar(Dot(IntLit(<<"3">>), Leaf(L_load)), Leaf(L_pass))
    /\ input.stream = Void
    /\ pc = "panicked"
(***************************************************************************)
(* C19: the storage changes only in the step of "store" that inserts.      *)
(* That step sets the one key its operand named to the stream and leaves   *)
(* every other key as it was; every other step leaves the storage as it    *)
(* is.  No key is ever removed: the key set only grows, also across a      *)
(* None and a fallback.                                                    *)
(***************************************************************************)
\* the step of "store" that has a text key in hand
StoreInserts ==
    Returning /\ TopIsPrimitive({L_store}) /\ IsSome(ctl.out) /\ IsStr(ctl.out[2])

C19_OnlyStoreWrites == storage' # storage => StoreInserts

C19_OneKey ==
    StoreInserts =>
        /\ DOMAIN storage' = (DOMAIN storage) \cup {ctl.out[2][2]}
        /\ storage'[ctl.out[2][2]] = Top.stream
        /\ \A k \in (DOMAIN storage) \ {ctl.out[2][2]} : storage'[k] = storage[k]

C19_KeysStay == (DOMAIN storage) \subseteq (DOMAIN storage')

C19_InitialKeysStay == (DOMAIN input.storage) \subseteq (DOMAIN storage)

C19_Frame ==
    /\ [][C19_OnlyStoreWrites /\ C19_OneKey /\ C19_KeysStay]_vars
    /\ []C19_InitialKeysStay

\* after a first branch that wrote "a" and failed, the fallback has written
\* "b": both keys are there, beside nothing else
C19_Witness ==
    /\ Parsed
    /\ ast = Match(Arrow(StoreCall(kA), LoadCall(kQ)), StoreCall(kB))
    /\ input.storage = EmptyStorage
    /\ pc = "returned"
    /\ DOMAIN storage = {kA, kB}

\* a key that was there keeps its value while another one is overwritten
C19_WitnessOverwrite ==
    /\ DOMAIN input.storage = {kA, kB}
    /\ pc = "returned"
    /\ storage[kA] # input.storage[kA]
    /\ storage[kB] = input.storage[kB]
(***************************************************************************)
(* C20: the binary built-ins do not look at their stream.  Their operands  *)
(* are evaluated on Void whatever the stream is, and the result and the    *)
(* final storage of a run are a function of the operands and the initial   *)
(* storage alone: runs that differ only in the stream (Void, an Int, a     *)
(* text) end alike.                                                        *)
(***************************************************************************)
C20_OperandCalled ==
    (pc = "run" /\ ctl'.mode = "call"
        /\ \/ Calling /\ ctl.node[1] = "Primitive" /\ ctl.node[2] \in BinaryLabels
           \/ Returning /\ TopIsPrimitive(BinaryLabels))
    => ctl'.stream = Void /\ ctl'.args = <<>>

\* what `label` gives on "a".load and "b".load under storage st
C20_Outcome(label, st) ==
    IF kA \notin DOMAIN st \/ kB \notin DOMAIN st THEN None
    ELSE IF ~(IsInt(st[kA]) /\ IsInt(st[kB])) THEN Panic
    ELSE IF label \in ArithLabels
    THEN IF label = L_rem
         THEN IF st[kB][2] = 0 THEN Panic
              ELSE Some(Int_(RemTrunc(st[kA][2], st[kB][2])))
         ELSE Some(Int_(Exact(label, st[kA][2], st[kB][2])))
    ELSE IF Holds(label, st[kA][2], st[kB][2]) THEN Some(Void) ELSE None

C20_Expected == C20_Outcome(input.node[2], input.storage)

C20_SameOnEveryStream ==
    input \in StreamRuns =>
        /\ storage = input.storage
        /\ pc = "returned" => ctl.out = C20_Expected
        /\ pc = "panicked" => C20_Expected = Panic
        /\ (ctl.mode = "ret" /\ Len(stack) = 0) => ctl.out = C20_Expected

\* the probe that writes in its left operand: result and storage do not
\* depend on the stream either
C20_ProbeOnEveryStream ==
    input.node = OrderProbe =>
        /\ pc # "panicked"
        /\ pc = "returned" =>
              IF kA \in DOMAIN input.storage
              THEN /\ ctl.out = Some(Void)
                   /\ storage = StorageInsert(input.storage, kQ, input.storage[kA])
              ELSE ctl.out = None /\ storage = input.storage

C20_StreamIgnored ==
    /\ [][C20_OperandCalled]_vars
    /\ [](C20_SameOnEveryStream /\ C20_ProbeOnEveryStream)

\* "a".load + "b".load has returned 2 on a text stream
C20_Witness ==
    /\ input \in StreamRuns
    /\ input.stream = Str_(<<"x">>)
    /\ input.node[2] = L_add
    /\ pc = "returned"
    /\ ctl.out = Some(Int_(2))

C20_WitnessInt ==
    /\ input \in StreamRuns
    /\ input.stream = Int_(1)
    /\ input.node[2] = L_lt
    /\ pc = "returned"
    /\ ctl.out = None
====
